---------------------------- MODULE Spec2Model ----------------------------
(***************************************************************************)
(* Consensus parameters of flokicoin (bitcoin/src/consensus/params.rs).    *)
(*                                                                         *)
(* The module holds one immutable Params record per network, the total     *)
(* lookup Params::new, the conversions built on it, and the derived        *)
(* difficulty_adjustment_interval.  The model keeps the six statics as     *)
(* process memory (statics) and lets a bounded number of threads resolve,  *)
(* borrow, read field by field and evaluate records in any interleaving.   *)
(*                                                                         *)
(* The Target ceilings (MAX_ATTAINABLE_MAINNET, ...) belong to the pow     *)
(* module; a record names the constant it is initialised from, so a Target *)
(* is kept as the name of its constant.                                    *)
(***************************************************************************)
EXTENDS Integers, Sequences, FiniteSets, TLC

\* ------------------------------------------------------------------ bounds
\* Number of threads that use the module concurrently.
NumReaders == 2
\* Small second counts up to MaxSecs tried for the two pow_target_* fields of
\* a caller-built record, next to the values the predefined records use.
MaxSecs == 2

Readers == 1..NumReaders

\* ------------------------------------------------------------ the data type
\* enum Network, as matched by Params::new.
Networks == {"Bitcoin", "Testnet", "Testnet4", "Signet", "Regtest"}

\* The fields of struct Params, in declaration order.
FieldOrder ==
    << "network", "bip16_time", "bip34_height", "bip65_height", "bip66_height",
       "rule_change_activation_threshold", "miner_confirmation_window",
       "pow_limit", "max_attainable_target", "pow_target_spacing",
       "pow_target_timespan", "allow_min_difficulty_blocks",
       "no_pow_retargeting" >>

Fields == { FieldOrder[i] : i \in 1..Len(FieldOrder) }

\* The declaration order again, cut into its runs of equally typed fields
\* (Network; u32; Target; u64; bool).  A thread that reads a record through
\* a reference loads one run per step.
FieldRuns ==
    << {"network"},
       {"bip16_time", "bip34_height", "bip65_height", "bip66_height",
        "rule_change_activation_threshold", "miner_confirmation_window"},
       {"pow_limit", "max_attainable_target"},
       {"pow_target_spacing", "pow_target_timespan"},
       {"allow_min_difficulty_blocks", "no_pow_retargeting"} >>

\* Params::MAINNET with the testnet value of allow_min_difficulty_blocks.
Params_MAINNET_MinDifficulty ==
    [ network |-> "Bitcoin",
      bip16_time |-> 1631485359,
      bip34_height |-> 1,
      bip65_height |-> 1,
      bip66_height |-> 1,
      rule_change_activation_threshold |-> 6840,
      miner_confirmation_window |-> 7200,
      pow_limit |-> "MAX_ATTAINABLE_MAINNET",
      max_attainable_target |-> "MAX_ATTAINABLE_MAINNET",
      pow_target_spacing |-> 60,
      pow_target_timespan |-> 60,
      allow_min_difficulty_blocks |-> TRUE,
      no_pow_retargeting |-> FALSE ]

\* ------------------------------------------------- the predefined constants
\* Params::MAINNET
Params_MAINNET ==
    [ network |-> "Bitcoin",
      bip16_time |-> 1631485359,
      bip34_height |-> 1,
      bip65_height |-> 1,
      bip66_height |-> 1,
      rule_change_activation_threshold |-> 6840,
      miner_confirmation_window |-> 7200,
      pow_limit |-> "MAX_ATTAINABLE_MAINNET",
      max_attainable_target |-> "MAX_ATTAINABLE_MAINNET",
      pow_target_spacing |-> 60,
      pow_target_timespan |-> 60,
      allow_min_difficulty_blocks |-> FALSE,
      no_pow_retargeting |-> FALSE ]

\* Params::BITCOIN, the alias of Params::MAINNET
Params_BITCOIN == Params_MAINNET

\* Params::TESTNET with the activation window of the upstream testnet.
Params_TESTNET_Upstream ==
    [ network |-> "Testnet",
      bip16_time |-> 1735376054,
      bip34_height |-> 1,
      bip65_height |-> 1,
      bip66_height |-> 1,
      rule_change_activation_threshold |-> 1512,
      miner_confirmation_window |-> 2016,
      pow_limit |-> "MAX_ATTAINABLE_TESTNET",
      max_attainable_target |-> "MAX_ATTAINABLE_TESTNET",
      pow_target_spacing |-> 60,
      pow_target_timespan |-> 60,
      allow_min_difficulty_blocks |-> TRUE,
      no_pow_retargeting |-> FALSE ]

\* Params::TESTNET (deprecated)
Params_TESTNET ==
    [ network |-> "Testnet",
      bip16_time |-> 1735376054,
      bip34_height |-> 1,
      bip65_height |-> 1,
      bip66_height |-> 1,
      rule_change_activation_threshold |-> 0,
      miner_confirmation_window |-> 1,
      pow_limit |-> "MAX_ATTAINABLE_TESTNET",
      max_attainable_target |-> "MAX_ATTAINABLE_TESTNET",
      pow_target_spacing |-> 60,
      pow_target_timespan |-> 60,
      allow_min_difficulty_blocks |-> TRUE,
      no_pow_retargeting |-> FALSE ]

\* Params::TESTNET3
Params_TESTNET3 ==
    [ network |-> "Testnet",
      bip16_time |-> 1735376054,
      bip34_height |-> 1,
      bip65_height |-> 1,
      bip66_height |-> 1,
      rule_change_activation_threshold |-> 0,
      miner_confirmation_window |-> 1,
      pow_limit |-> "MAX_ATTAINABLE_TESTNET",
      max_attainable_target |-> "MAX_ATTAINABLE_TESTNET",
      pow_target_spacing |-> 60,
      pow_target_timespan |-> 60,
      allow_min_difficulty_blocks |-> TRUE,
      no_pow_retargeting |-> FALSE ]

\* Params::TESTNET4 with a zero block spacing.
Params_TESTNET4_ZeroSpacing ==
    [ network |-> "Testnet4",
      bip16_time |-> 1735376054,
      bip34_height |-> 1,
      bip65_height |-> 1,
      bip66_height |-> 1,
      rule_change_activation_threshold |-> 1512,
      miner_confirmation_window |-> 2016,
      pow_limit |-> "MAX_ATTAINABLE_TESTNET",
      max_attainable_target |-> "MAX_ATTAINABLE_TESTNET",
      pow_target_spacing |-> 0 * 60,
      pow_target_timespan |-> 14 * 24 * 60 * 60,
      allow_min_difficulty_blocks |-> TRUE,
      no_pow_retargeting |-> FALSE ]

\* Params::TESTNET4
Params_TESTNET4 ==
    [ network |-> "Testnet4",
      bip16_time |-> 1735376054,
      bip34_height |-> 1,
      bip65_height |-> 1,
      bip66_height |-> 1,
      rule_change_activation_threshold |-> 1512,
      miner_confirmation_window |-> 2016,
      pow_limit |-> "MAX_ATTAINABLE_TESTNET",
      max_attainable_target |-> "MAX_ATTAINABLE_TESTNET",
      pow_target_spacing |-> 10 * 60,
      pow_target_timespan |-> 14 * 24 * 60 * 60,
      allow_min_difficulty_blocks |-> TRUE,
      no_pow_retargeting |-> FALSE ]

\* Params::SIGNET whose deprecated pow_limit was not renamed with the rest.
Params_SIGNET_StaleLimit ==
    [ network |-> "Signet",
      bip16_time |-> 1735376054,
      bip34_height |-> 1,
      bip65_height |-> 1,
      bip66_height |-> 1,
      rule_change_activation_threshold |-> 1916,
      miner_confirmation_window |-> 2016,
      pow_limit |-> "MAX_ATTAINABLE_TESTNET",
      max_attainable_target |-> "MAX_ATTAINABLE_SIGNET",
      pow_target_spacing |-> 60,
      pow_target_timespan |-> 60,
      allow_min_difficulty_blocks |-> FALSE,
      no_pow_retargeting |-> FALSE ]

\* Params::SIGNET
Params_SIGNET ==
    [ network |-> "Signet",
      bip16_time |-> 1735376054,
      bip34_height |-> 1,
      bip65_height |-> 1,
      bip66_height |-> 1,
      rule_change_activation_threshold |-> 1916,
      miner_confirmation_window |-> 2016,
      pow_limit |-> "MAX_ATTAINABLE_SIGNET",
      max_attainable_target |-> "MAX_ATTAINABLE_SIGNET",
      pow_target_spacing |-> 60,
      pow_target_timespan |-> 60,
      allow_min_difficulty_blocks |-> FALSE,
      no_pow_retargeting |-> FALSE ]

\* Params::REGTEST with the upstream threshold next to the new window.
Params_REGTEST_Upstream ==
    [ network |-> "Regtest",
      bip16_time |-> 1735376054,
      bip34_height |-> 100000000,
      bip65_height |-> 1351,
      bip66_height |-> 1251,
      rule_change_activation_threshold |-> 108,
      miner_confirmation_window |-> 3,
      pow_limit |-> "MAX_ATTAINABLE_REGTEST",
      max_attainable_target |-> "MAX_ATTAINABLE_REGTEST",
      pow_target_spacing |-> 60,
      pow_target_timespan |-> 60,
      allow_min_difficulty_blocks |-> TRUE,
      no_pow_retargeting |-> TRUE ]

\* Params::REGTEST
Params_REGTEST ==
    [ network |-> "Regtest",
      bip16_time |-> 1735376054,
      bip34_height |-> 100000000,
      bip65_height |-> 1351,
      bip66_height |-> 1251,
      rule_change_activation_threshold |-> 1,
      miner_confirmation_window |-> 3,
      pow_limit |-> "MAX_ATTAINABLE_REGTEST",
      max_attainable_target |-> "MAX_ATTAINABLE_REGTEST",
      pow_target_spacing |-> 60,
      pow_target_timespan |-> 60,
      allow_min_difficulty_blocks |-> TRUE,
      no_pow_retargeting |-> TRUE ]

\* The six associated constants of impl Params, by name.
ConstNames == {"MAINNET", "TESTNET", "TESTNET3", "TESTNET4", "SIGNET", "REGTEST"}

ParamsConst(c) ==
    CASE c = "MAINNET"  -> Params_MAINNET
      [] c = "TESTNET"  -> Params_TESTNET
      [] c = "TESTNET3" -> Params_TESTNET3
      [] c = "TESTNET4" -> Params_TESTNET4
      [] c = "SIGNET"   -> Params_SIGNET
      [] c = "REGTEST"  -> Params_REGTEST

\* The six statics of the module and the constant each is initialised from:
\* the deprecated static TESTNET is initialised from Params::TESTNET3.
StaticNames == ConstNames

StaticInit(s) ==
    CASE s = "MAINNET"  -> Params_MAINNET
      [] s = "TESTNET"  -> Params_TESTNET3
      [] s = "TESTNET3" -> Params_TESTNET3
      [] s = "TESTNET4" -> Params_TESTNET4
      [] s = "SIGNET"   -> Params_SIGNET
      [] s = "REGTEST"  -> Params_REGTEST

\* --------------------------------------------------------- pure functions
\* Params::new with the Testnet4 arm resolving to the testnet3 record.
ParamsNew_Testnet4Arm(network) ==
    CASE network = "Bitcoin"  -> Params_MAINNET
      [] network = "Testnet"  -> Params_TESTNET3
      [] network = "Testnet4" -> Params_TESTNET3
      [] network = "Signet"   -> Params_SIGNET
      [] network = "Regtest"  -> Params_REGTEST

\* Params::new: the exhaustive match over Network.
ParamsNew(network) ==
    CASE network = "Bitcoin"  -> Params_MAINNET
      [] network = "Testnet"  -> Params_TESTNET3
      [] network = "Testnet4" -> Params_TESTNET4
      [] network = "Signet"   -> Params_SIGNET
      [] network = "Regtest"  -> Params_REGTEST

\* Network::params (network module): the predefined record of the network,
\* by 'static reference.
NetworkParams(network) ==
    CASE network = "Bitcoin"  -> "MAINNET"
      [] network = "Testnet"  -> "TESTNET3"
      [] network = "Testnet4" -> "TESTNET4"
      [] network = "Signet"   -> "SIGNET"
      [] network = "Regtest"  -> "REGTEST"

\* u64 division panics on a zero divisor.
DivPanics(p) == p.pow_target_spacing = 0

\* difficulty_adjustment_interval with the operands exchanged.
DifficultyAdjustmentIntervalOf_Swapped(p) ==
    p.pow_target_spacing \div p.pow_target_timespan

\* difficulty_adjustment_interval that answers 0 when retargeting is off.
DifficultyAdjustmentIntervalOf_NoRetarget(p) ==
    IF p.no_pow_retargeting
    THEN 0
    ELSE p.pow_target_timespan \div p.pow_target_spacing

\* Params::difficulty_adjustment_interval: u64 / u64 truncates, and on
\* non-negative operands the quotient never exceeds the dividend, so the
\* result stays within u64.
DifficultyAdjustmentIntervalOf(p) ==
    p.pow_target_timespan \div p.pow_target_spacing

\* ------------------------------------------------------------------ state
VARIABLES
    statics,   \* the memory of the six statics: static name -> Params
    pc,        \* per thread: "start", "owned", "borrowed", "reading",
               \*             "done", "panicked"
    net,       \* per thread: the Network it passed in, or "none"
    own,       \* per thread: the Params value it owns, or NoParams
    ref,       \* per thread: the &Params it holds: a static name, "self"
               \*             (a borrow of own) or "none"
    idx,       \* per thread: number of field runs read so far through ref
    obs,       \* per thread: the fields read so far, field -> value
    result     \* per thread: <<n>> once difficulty_adjustment_interval
               \*             returned n, else << >>

vars == << statics, pc, net, own, ref, idx, obs, result >>

NoParams == [ network |-> "none" ]
NoObs == [ f \in {} |-> 0 ]

\* The record behind the reference a thread holds.
Deref(r) == IF ref[r] = "self" THEN own[r] ELSE statics[ref[r]]

\* The record a thread passes as self: its own value or its borrow.
Held(r) == IF pc[r] = "owned" \/ ref[r] = "none" THEN own[r] ELSE Deref(r)

Init ==
    /\ statics = [ s \in StaticNames |-> StaticInit(s) ]
    /\ pc = [ r \in Readers |-> "start" ]
    /\ net = [ r \in Readers |-> "none" ]
    /\ own = [ r \in Readers |-> NoParams ]
    /\ ref = [ r \in Readers |-> "none" ]
    /\ idx = [ r \in Readers |-> 0 ]
    /\ obs = [ r \in Readers |-> NoObs ]
    /\ result = [ r \in Readers |-> << >> ]

\* ---------------------------------------------------------------- actions
\* Params::new(network), by value.
New(r, network) ==
    /\ pc[r] = "start"
    /\ pc' = [pc EXCEPT ![r] = "owned"]
    /\ net' = [net EXCEPT ![r] = network]
    /\ own' = [own EXCEPT ![r] = ParamsNew(network)]
    /\ UNCHANGED << statics, ref, idx, obs, result >>

\* impl From<Network> for Params: Self::new(value).
FromNetwork(r, value) ==
    /\ pc[r] = "start"
    /\ pc' = [pc EXCEPT ![r] = "owned"]
    /\ net' = [net EXCEPT ![r] = value]
    /\ own' = [own EXCEPT ![r] = ParamsNew(value)]
    /\ UNCHANGED << statics, ref, idx, obs, result >>

\* impl From<&Network> for Params: Self::new(*value).
FromNetworkRef(r, value) ==
    /\ pc[r] = "start"
    /\ pc' = [pc EXCEPT ![r] = "owned"]
    /\ net' = [net EXCEPT ![r] = value]
    /\ own' = [own EXCEPT ![r] = ParamsNew(value)]
    /\ UNCHANGED << statics, ref, idx, obs, result >>

\* impl From<Network> for &'static Params: value.params().
FromNetworkStatic(r, value) ==
    /\ pc[r] = "start"
    /\ pc' = [pc EXCEPT ![r] = "borrowed"]
    /\ ref' = [ref EXCEPT ![r] = NetworkParams(value)]
    /\ UNCHANGED << statics, net, own, idx, obs, result >>

\* impl From<&Network> for &'static Params: value.params().
FromNetworkRefStatic(r, value) ==
    /\ pc[r] = "start"
    /\ pc' = [pc EXCEPT ![r] = "borrowed"]
    /\ ref' = [ref EXCEPT ![r] = NetworkParams(value)]
    /\ UNCHANGED << statics, net, own, idx, obs, result >>

\* impl AsRef<Params> for Network: Self::params(*self).
AsRefNetwork(r, self) ==
    /\ pc[r] = "start"
    /\ pc' = [pc EXCEPT ![r] = "borrowed"]
    /\ ref' = [ref EXCEPT ![r] = NetworkParams(self)]
    /\ UNCHANGED << statics, net, own, idx, obs, result >>

\* A static reference, e.g. &params::MAINNET.
RefStatic(r, s) ==
    /\ pc[r] = "start"
    /\ pc' = [pc EXCEPT ![r] = "borrowed"]
    /\ ref' = [ref EXCEPT ![r] = s]
    /\ UNCHANGED << statics, net, own, idx, obs, result >>

\* impl AsRef<Params> for Params: returns self.
AsRefParams(r) ==
    /\ pc[r] \in {"owned", "borrowed"}
    /\ pc' = [pc EXCEPT ![r] = "borrowed"]
    /\ ref' = [ref EXCEPT ![r] = IF pc[r] = "owned" THEN "self" ELSE ref[r]]
    /\ UNCHANGED << statics, net, own, idx, obs, result >>

\* A load that also writes through the reference (the statics declared
\* static mut): it clears bip16_time of the record it reads.
ReadField_Write(r) ==
    /\ pc[r] \in {"borrowed", "reading"}
    /\ ref[r] \in StaticNames
    /\ idx[r] < Len(FieldRuns)
    /\ LET run == FieldRuns[idx[r] + 1]
       IN  obs' = [obs EXCEPT ![r] =
                     [ g \in DOMAIN obs[r] \cup run |->
                         IF g \in run THEN statics[ref[r]][g] ELSE obs[r][g] ]]
    /\ idx' = [idx EXCEPT ![r] = idx[r] + 1]
    /\ pc' = [pc EXCEPT ![r] = "reading"]
    /\ statics' = [statics EXCEPT ![ref[r]].bip16_time = 0]
    /\ UNCHANGED << net, own, ref, result >>

\* One load through a shared reference to a static: the thread reads the
\* next run of fields of the record from memory; memory is left as it is.
ReadField(r) ==
    /\ pc[r] \in {"borrowed", "reading"}
    /\ ref[r] \in StaticNames
    /\ idx[r] < Len(FieldRuns)
    /\ LET run == FieldRuns[idx[r] + 1]
       IN  obs' = [obs EXCEPT ![r] =
                     [ g \in DOMAIN obs[r] \cup run |->
                         IF g \in run THEN statics[ref[r]][g] ELSE obs[r][g] ]]
    /\ idx' = [idx EXCEPT ![r] = idx[r] + 1]
    /\ pc' = [pc EXCEPT ![r] = "reading"]
    /\ UNCHANGED << statics, net, own, ref, result >>

\* self.difficulty_adjustment_interval() on the record the thread holds.
DifficultyAdjustmentInterval(r) ==
    /\ pc[r] \in {"owned", "borrowed"}
    /\ IF DivPanics(Held(r))
       THEN /\ pc' = [pc EXCEPT ![r] = "panicked"]
            /\ UNCHANGED result
       ELSE /\ pc' = [pc EXCEPT ![r] = "done"]
            /\ result' = [result EXCEPT ![r] =
                            << DifficultyAdjustmentIntervalOf(Held(r)) >>]
    /\ UNCHANGED << statics, net, own, ref, idx, obs >>

\* The thread drops what it holds and starts over.
Release(r) ==
    /\ pc[r] \in {"reading", "done", "panicked"}
    /\ pc' = [pc EXCEPT ![r] = "start"]
    /\ net' = [net EXCEPT ![r] = "none"]
    /\ own' = [own EXCEPT ![r] = NoParams]
    /\ ref' = [ref EXCEPT ![r] = "none"]
    /\ idx' = [idx EXCEPT ![r] = 0]
    /\ obs' = [obs EXCEPT ![r] = NoObs]
    /\ result' = [result EXCEPT ![r] = << >>]
    /\ UNCHANGED statics

Next ==
    \E r \in Readers :
        \/ \E n \in Networks : New(r, n)
        \/ \E n \in Networks : FromNetwork(r, n)
        \/ \E n \in Networks : FromNetworkRef(r, n)
        \/ \E n \in Networks : FromNetworkStatic(r, n)
        \/ \E n \in Networks : FromNetworkRefStatic(r, n)
        \/ \E n \in Networks : AsRefNetwork(r, n)
        \/ \E s \in StaticNames : RefStatic(r, s)
        \/ AsRefParams(r)
        \/ ReadField(r)
        \/ DifficultyAdjustmentInterval(r)
        \/ Release(r)

Spec == Init /\ [][Next]_vars

\* ------------------------------------------- the derived metric on its own
\* Params has public fields and derives Clone, so a caller can hold a record
\* whose pow_target_* fields are any u64: a predefined record, or a copy of
\* one with the two fields overwritten.
SecsTimespan == (1..MaxSecs) \cup {61}
SecsSpacing == (0..MaxSecs) \cup {60}

InputRecords ==
    { ParamsConst(c) : c \in ConstNames } \cup
    { [ base EXCEPT !.pow_target_timespan = t, !.pow_target_spacing = s ] :
        base \in {Params_MAINNET, Params_REGTEST},
        t \in SecsTimespan, s \in SecsSpacing }

InitFn ==
    /\ statics = [ s \in StaticNames |-> StaticInit(s) ]
    /\ pc = [ r \in Readers |-> "owned" ]
    /\ net = [ r \in Readers |-> "none" ]
    /\ own \in [ Readers -> InputRecords ]
    /\ ref = [ r \in Readers |-> "none" ]
    /\ idx = [ r \in Readers |-> 0 ]
    /\ obs = [ r \in Readers |-> NoObs ]
    /\ result = [ r \in Readers |-> << >> ]

NextFn == \E r \in Readers : DifficultyAdjustmentInterval(r)

SpecFn == InitFn /\ [][NextFn]_vars

\* ================================================================= claims
\* A thread that holds the value Params::new returned for net[r].
HoldsNew(r) == net[r] \in Networks

\* The retargeting period in blocks of a record with a positive spacing.
Floor(p, q) ==
    /\ q * p.pow_target_spacing <= p.pow_target_timespan
    /\ p.pow_target_timespan < (q + 1) * p.pow_target_spacing

\* C1: Params::new answers for each of the five networks, with a complete
\* record and no failure, and the record's network field is the network
\* that was passed in.
C1_NewRoundTrip ==
    \A r \in Readers :
        HoldsNew(r) =>
            /\ pc[r] # "panicked"
            /\ DOMAIN own[r] = Fields
            /\ own[r].network = net[r]

C1_Witness ==
    \E r \in Readers :
        /\ pc[r] = "owned"
        /\ net[r] = "Testnet4"
        /\ own[r].network = "Testnet4"

\* C2: on a record with a positive spacing difficulty_adjustment_interval
\* returns the floor of timespan / spacing: the one q with
\* q * spacing <= timespan < (q + 1) * spacing; 1,209,600 / 600 gives 2016
\* and 60 / 60 gives 1.
C2_IntervalIsFloor ==
    \A r \in Readers :
        /\ (own[r].pow_target_spacing > 0 /\ pc[r] # "owned") =>
              /\ pc[r] = "done"
              /\ Len(result[r]) = 1
              /\ Floor(own[r], result[r][1])
        /\ ( /\ pc[r] # "owned"
             /\ own[r].pow_target_timespan = 1209600
             /\ own[r].pow_target_spacing = 600 ) => result[r] = << 2016 >>
        /\ ( /\ pc[r] # "owned"
             /\ own[r].pow_target_timespan = 60
             /\ own[r].pow_target_spacing = 60 ) => result[r] = << 1 >>

C2_Witness ==
    \E r, t \in Readers :
        /\ own[r] = Params_TESTNET4 /\ result[r] = << 2016 >>
        /\ own[t].pow_target_timespan = 61 /\ own[t].pow_target_spacing = 2
        /\ result[t] = << 30 >>

\* C3: in every predefined record, in memory and as returned by
\* Params::new, the activation threshold is at most the confirmation window.
C3_ThresholdWithinWindow ==
    /\ \A c \in ConstNames :
          ParamsConst(c).rule_change_activation_threshold
              <= ParamsConst(c).miner_confirmation_window
    /\ \A s \in StaticNames :
          statics[s].rule_change_activation_threshold
              <= statics[s].miner_confirmation_window
    /\ \A r \in Readers :
          HoldsNew(r) =>
              own[r].rule_change_activation_threshold
                  <= own[r].miner_confirmation_window

C3_Witness ==
    \E r \in Readers :
        /\ net[r] = "Regtest"
        /\ own[r].rule_change_activation_threshold = 1
        /\ own[r].miner_confirmation_window = 3

\* C4: every predefined record has a positive spacing and a positive
\* timespan, and difficulty_adjustment_interval on a record that
\* Params::new returned, or on a static, never panics and returns a value.
C4_PositiveSpacingNoPanic ==
    /\ \A c \in ConstNames :
          /\ ParamsConst(c).pow_target_spacing > 0
          /\ ParamsConst(c).pow_target_timespan > 0
    /\ \A s \in StaticNames :
          /\ statics[s].pow_target_spacing > 0
          /\ statics[s].pow_target_timespan > 0
    /\ \A r \in Readers :
          /\ pc[r] # "panicked"
          /\ pc[r] = "done" => Len(result[r]) = 1

C4_Witness ==
    \E r \in Readers :
        /\ net[r] = "Testnet4"
        /\ pc[r] = "done"
        /\ result[r] = << 2016 >>

\* C5: two records that agree on pow_target_timespan and pow_target_spacing
\* get the same outcome from difficulty_adjustment_interval whatever
\* no_pow_retargeting and their other fields hold, and the Regtest record
\* (no_pow_retargeting set) gets a value.
C5_IgnoresNoPowRetargeting ==
    /\ \A r, t \in Readers :
          ( /\ pc[r] # "owned" /\ pc[t] # "owned"
            /\ own[r].pow_target_timespan = own[t].pow_target_timespan
            /\ own[r].pow_target_spacing = own[t].pow_target_spacing ) =>
              /\ pc[r] = pc[t]
              /\ result[r] = result[t]
    /\ \A r \in Readers :
          (own[r] = Params_REGTEST /\ pc[r] # "owned") =>
              /\ pc[r] = "done"
              /\ Len(result[r]) = 1

C5_Witness ==
    \E r, t \in Readers :
        /\ pc[r] = "done" /\ pc[t] = "done"
        /\ own[r] = Params_REGTEST
        /\ own[t].no_pow_retargeting = FALSE
        /\ own[t].network # own[r].network
        /\ own[t].pow_target_timespan = own[r].pow_target_timespan
        /\ own[t].pow_target_spacing = own[r].pow_target_spacing
        /\ result[r] = result[t]

\* C6: the constants Params::TESTNET and Params::TESTNET3 agree on every
\* field, and the record Params::new returns for Network::Testnet equals
\* both field for field.
C6_TestnetVariantsAgree ==
    /\ \A f \in Fields : Params_TESTNET[f] = Params_TESTNET3[f]
    /\ \A r \in Readers :
          net[r] = "Testnet" =>
              \A f \in Fields :
                  /\ own[r][f] = Params_TESTNET[f]
                  /\ own[r][f] = Params_TESTNET3[f]

C6_Witness ==
    \E r \in Readers :
        /\ pc[r] = "owned"
        /\ net[r] = "Testnet"
        /\ own[r] = Params_TESTNET3

\* C7: whatever the threads do and however their steps interleave, each
\* static keeps every field at its constant value, and every field a thread
\* has read through a reference to a static has that constant value; a
\* thread that has read all runs holds the whole record.
C7_ReadersSeeConstants ==
    /\ \A s \in StaticNames :
          /\ DOMAIN statics[s] = Fields
          /\ statics[s] = StaticInit(s)
    /\ \A r \in Readers :
          ref[r] \in StaticNames =>
              /\ \A f \in DOMAIN obs[r] : obs[r][f] = StaticInit(ref[r])[f]
              /\ idx[r] = Len(FieldRuns) => obs[r] = StaticInit(ref[r])

C7_Witness ==
    \E r, t \in Readers :
        /\ r # t
        /\ ref[r] = "MAINNET" /\ ref[t] = "MAINNET"
        /\ idx[r] = Len(FieldRuns) /\ obs[r] = Params_MAINNET
        /\ idx[t] = 2 /\ pc[t] = "reading"

\* C8: in every predefined record the confirmation window is positive and
\* divides the retargeting period in blocks,
\* (pow_target_timespan / pow_target_spacing) mod miner_confirmation_window = 0.
C8_WindowDividesRetargetPeriod ==
    \A s \in StaticNames :
        /\ statics[s].miner_confirmation_window > 0
        /\ (statics[s].pow_target_timespan \div statics[s].pow_target_spacing)
              % statics[s].miner_confirmation_window = 0

\* C9: a record Params::new returns allows minimum-difficulty blocks only
\* for a network other than Bitcoin, and disables retargeting only for
\* Regtest.
C9_FlagsOnlyOnTestNetworks ==
    \A r \in Readers :
        HoldsNew(r) =>
            /\ own[r].allow_min_difficulty_blocks => net[r] # "Bitcoin"
            /\ own[r].no_pow_retargeting => net[r] = "Regtest"

C9_Witness ==
    \E r, t \in Readers :
        /\ net[r] = "Regtest" /\ own[r].no_pow_retargeting
        /\ own[r].allow_min_difficulty_blocks
        /\ net[t] = "Bitcoin" /\ ~ own[t].allow_min_difficulty_blocks

\* C10: in every predefined record, in memory and as returned by
\* Params::new, pow_limit and max_attainable_target hold the same Target.
C10_PowLimitIsMaxAttainable ==
    /\ \A c \in ConstNames :
          ParamsConst(c).pow_limit = ParamsConst(c).max_attainable_target
    /\ \A s \in StaticNames :
          statics[s].pow_limit = statics[s].max_attainable_target
    /\ \A r \in Readers :
          HoldsNew(r) => own[r].pow_limit = own[r].max_attainable_target

C10_Witness ==
    \E r \in Readers :
        /\ net[r] = "Signet"
        /\ own[r].pow_limit = "MAX_ATTAINABLE_SIGNET"
        /\ own[r].max_attainable_target = "MAX_ATTAINABLE_SIGNET"

=============================================================================
